---- MODULE Spec2Model ----
(***************************************************************************)
(* Riemannian projection onto the tangent space of a Tensor-Train (TT)     *)
(* manifold: project_sum, project and project_matmul of t3f/riemannian.py. *)
(*                                                                         *)
(* Tensors are records [shape, val]: shape is the tuple of axis sizes and  *)
(* val maps every index tuple (1-based entries) to an integer.  Mode and   *)
(* core positions (core_idx, tt_cores, raw_shape, tt_ranks, rhs, lhs) are  *)
(* 0-based as in the source.                                               *)
(***************************************************************************)
EXTENDS Integers, Sequences, FiniteSets, TLC

VARIABLES
  op,        \* which public function is running
  what,      \* argument `what` as passed by the caller
  where,     \* argument `where`
  matrix,    \* argument `matrix` (project_matmul), None otherwise
  weights,   \* argument `weights` (project_sum), None otherwise
  orth,      \* what decompositions.orthogonalize_tt_cores answers in this call
  pc,        \* position in the function body
  left_tangent_space_tens,
  right_tangent_space_tens,
  rhs,
  lhs,
  core_idx,
  res_cores_list,
  result,    \* the returned object, None until the return
  error      \* the exception that ended the call, "" if none

vars == <<op, what, where, matrix, weights, orth, pc, left_tangent_space_tens,
          right_tangent_space_tens, rhs, lhs, core_idx, res_cores_list,
          result, error>>

-----------------------------------------------------------------------------
(* Bounds of the explored inputs. *)
MaxDims == 3
MaxRank == 2
MaxMode == 2
MaxBatch == 2

(* Seeds of the pseudo-random cores; the seed also sets the phase of the mode sizes. *)
Seeds == {0, 1}

-----------------------------------------------------------------------------
(* Arrays. *)

None == [none |-> TRUE]
Err == [err |-> TRUE]
IsErr(t) == "err" \in DOMAIN t
(* A call that raised: kind names the check or the contraction that failed. *)
Raise(kind) == [err |-> TRUE, error |-> kind]
IsNone(t) == "none" \in DOMAIN t

RECURSIVE Idx(_)
Idx(shape) ==
  IF shape = <<>> THEN {<<>>}
  ELSE {<<i>> \o t : i \in 1..Head(shape), t \in Idx(Tail(shape))}

(* An array: its shape, its entries by index tuple, and its dtype. *)
Tensor(shape, val, dtype) == [shape |-> shape, val |-> val @@ <<>>, dtype |-> dtype]

RECURSIVE SumTo(_, _)
SumTo(f, n) == IF n = 0 THEN 0 ELSE f[n] + SumTo(f, n - 1)

RECURSIVE ProdTo(_, _)
ProdTo(f, n) == IF n = 0 THEN 1 ELSE f[n] * ProdTo(f, n - 1)

RECURSIVE SetToSeq(_)
SetToSeq(S) ==
  IF S = {} THEN <<>>
  ELSE LET e == CHOOSE x \in S : TRUE IN <<e>> \o SetToSeq(S \ {e})

Range(s) == {s[i] : i \in 1..Len(s)}

(* tf.einsum (TensorFlow 1.x).  subs: one tuple of axis labels per operand;  *)
(* out: the labels of the result; ts: the operands.  A label missing from    *)
(* out is summed.  The operands must have one dtype and as many axes as      *)
(* subscripts.  The operands are contracted pair by pair and every label     *)
(* must have one size, unless a label is summed over more than two operands: *)
(* then the operands are multiplied with broadcasting, and an axis of size 1 *)
(* fits any size of its label.  Otherwise the call raises.                   *)
Labels(subs) == UNION {Range(subs[p]) : p \in 1..Len(subs)}
Pos(sub, l) == CHOOSE i \in 1..Len(sub) : sub[i] = l
Holders(subs, l) == {p \in 1..Len(subs) : l \in Range(subs[p])}
Sizes(subs, ts, l) == {ts[p].shape[Pos(subs[p], l)] : p \in Holders(subs, l)}
Dim(subs, ts, l) == CHOOSE n \in Sizes(subs, ts, l) : \A m \in Sizes(subs, ts, l) : m <= n

Broadcasts(subs, out) ==
  \E l \in Labels(subs) \ Range(out) : Cardinality(Holders(subs, l)) > 2

EinsumOK(subs, out, ts) ==
  /\ \A p \in 1..Len(ts) : ~IsErr(ts[p])
  /\ \A p, q \in 1..Len(ts) : ts[p].dtype = ts[q].dtype
  /\ \A p \in 1..Len(subs) : Len(subs[p]) = Len(ts[p].shape)
  /\ \A l \in Labels(subs) :
       IF Broadcasts(subs, out)
       THEN Sizes(subs, ts, l) \subseteq {1, Dim(subs, ts, l)}
       ELSE Cardinality(Sizes(subs, ts, l)) = 1

(* The sum, over the labels in rest, of the product of the operands' entries *)
(* at the positions env (label -> index) names; dims: label -> axis size.    *)
(* An axis of size 1 is read at its only position.                           *)
RECURSIVE ESum(_, _, _, _, _)
ESum(subs, ts, dims, env, rest) ==
  IF rest = <<>>
  THEN ProdTo([p \in 1..Len(subs) |->
                 ts[p].val[[i \in 1..Len(subs[p]) |->
                              IF ts[p].shape[i] = 1 THEN 1 ELSE env[subs[p][i]]]]],
              Len(subs))
  ELSE SumTo([v \in 1..dims[Head(rest)] |->
                ESum(subs, ts, dims, (Head(rest) :> v) @@ env, Tail(rest))],
             dims[Head(rest)])

einsum(subs, out, ts) ==
  IF ~EinsumOK(subs, out, ts) THEN Err
  ELSE LET summed == SetToSeq(Labels(subs) \ Range(out))
           dims == [l \in Labels(subs) |-> Dim(subs, ts, l)] @@ <<>>
           oshape == [i \in 1..Len(out) |-> dims[out[i]]]
           F(ix) == ESum(subs, ts, dims, [l \in Range(out) |-> ix[Pos(out, l)]], summed)
       IN Tensor(oshape, [ix \in Idx(oshape) |-> F(ix)], ts[1].dtype)

(* tf.concat((a, b), axis), axis 0-based: one dtype, equal rank and equal    *)
(* sizes on all other axes, otherwise the call raises.                       *)
concat(a, b, axis) ==
  IF IsErr(a) \/ IsErr(b) THEN Err
  ELSE IF a.dtype # b.dtype THEN Err
  ELSE IF Len(a.shape) # Len(b.shape) \/ axis + 1 > Len(a.shape) THEN Err
  ELSE IF \E i \in 1..Len(a.shape) : i # axis + 1 /\ a.shape[i] # b.shape[i] THEN Err
  ELSE LET n == a.shape[axis + 1]
           F(ix) == IF ix[axis + 1] <= n THEN a.val[ix]
                    ELSE b.val[[ix EXCEPT ![axis + 1] = @ - n]]
           shp == [a.shape EXCEPT ![axis + 1] = @ + b.shape[axis + 1]]
       IN Tensor(shp, [ix \in Idx(shp) |-> F(ix)], a.dtype)

(* a - b of two arrays of the same shape (proj_core -= ...). *)
subtract(a, b) ==
  IF IsErr(a) \/ IsErr(b) THEN Err
  ELSE IF a.dtype # b.dtype \/ a.shape # b.shape THEN Err
  ELSE Tensor(a.shape, [ix \in Idx(a.shape) |-> a.val[ix] - b.val[ix]], a.dtype)

(* tf.ones(shape, dtype), tf.zeros(shape, dtype) *)
ones(shape, dtype) == Tensor(shape, [ix \in Idx(shape) |-> 1], dtype)
zeros(shape, dtype) == Tensor(shape, [ix \in Idx(shape) |-> 0], dtype)

(* tf.reduce_sum(t, axis=0) *)
reduce_sum0(t) ==
  IF IsErr(t) THEN Err
  ELSE LET F(ix) == SumTo([s \in 1..t.shape[1] |-> t.val[<<s>> \o ix]], t.shape[1])
       IN Tensor(Tail(t.shape), [ix \in Idx(Tail(t.shape)) |-> F(ix)], t.dtype)

(* tf.tile(tf.expand_dims(t, 0), [n, 1, ..., 1]) *)
expand_tile(t, n) ==
  LET shp == <<n>> \o t.shape
  IN Tensor(shp, [ix \in Idx(shp) |-> t.val[Tail(ix)]], t.dtype)

(* t[s] along the leading axis, s 1-based *)
slice0(t, s) ==
  LET shp == Tail(t.shape)
  IN Tensor(shp, [ix \in Idx(shp) |-> t.val[<<s>> \o ix]], t.dtype)

-----------------------------------------------------------------------------
(* TT containers (tensor_train.TensorTrain, tensor_train_batch.             *)
(* TensorTrainBatch) and the helpers of shapes.py the functions call.       *)

DTypes == {"float32", "float64"}

TT(kind, cores, raw_shape, dtype, batch_size) ==
  [kind |-> kind, tt_cores |-> cores, raw_shape |-> raw_shape,
   dtype |-> dtype, batch_size |-> batch_size]

(* TensorTrain(tt_cores, shape) / TensorTrainBatch(tt_cores, shape, batch_size): *)
(* the list becomes the cores of the new object.                                 *)
TensorTrain(cores_list, raw_shape, dtype) ==
  TT("TensorTrain", [k \in 0..(Len(cores_list) - 1) |-> cores_list[k + 1]],
     raw_shape, dtype, 0)

TensorTrainBatch(cores_list, raw_shape, dtype, batch_size) ==
  TT("TensorTrainBatch", [k \in 0..(Len(cores_list) - 1) |-> cores_list[k + 1]],
     raw_shape, dtype, batch_size)

isTensorTrain(x) == x.kind = "TensorTrain"
isTensorTrainBatch(x) == x.kind = "TensorTrainBatch"
get_raw_shape(tt) == tt.raw_shape
ndims(tt) == Cardinality(DOMAIN tt.tt_cores)
is_tt_matrix(tt) == Len(tt.raw_shape) = 2
is_compatible_with(d1, d2) == d1 = d2

(* shapes.lazy_tt_ranks of a TensorTrain: the rank axes of its cores. *)
lazy_tt_ranks(tt) ==
  [k \in 0..ndims(tt) |->
     IF k < ndims(tt) THEN tt.tt_cores[k].shape[1]
     ELSE LET c == tt.tt_cores[k - 1] IN c.shape[Len(c.shape)]]

(* shapes.lazy_batch_size: a plain TensorTrain counts as a batch of one. *)
lazy_batch_size(tt) == IF isTensorTrainBatch(tt) THEN tt.batch_size ELSE 1

(* shapes.expand_batch_dim: a TensorTrain becomes a batch of size 1, a batch *)
(* is returned as it is.                                                     *)
expand_batch_dim(tt) ==
  IF isTensorTrainBatch(tt) THEN tt
  ELSE TT("TensorTrainBatch",
          [k \in DOMAIN tt.tt_cores |-> expand_tile(tt.tt_cores[k], 1)],
          tt.raw_shape, tt.dtype, 1)

-----------------------------------------------------------------------------
(* The inputs of the explored calls. *)

ModeSize(seed, k) == 1 + ((seed + k) % MaxMode)
ColSize(seed, k) == 1 + ((seed + k + 1) % MaxMode)

RawShape(isMat, d, seed) ==
  IF isMat THEN << [k \in 0..(d - 1) |-> ModeSize(seed, k)],
                   [k \in 0..(d - 1) |-> ColSize(seed, k)] >>
  ELSE << [k \in 0..(d - 1) |-> ModeSize(seed, k)] >>

(* The raw shape of a TT-matrix with the given row and column mode sizes. *)
MatShape(rows, cols) == <<rows, cols>>

NumProfiles(d) == IF d <= 1 THEN 1 ELSE IF d = 2 THEN MaxRank ELSE 2 * MaxRank

(* TT-rank at cut k of rank profile p: odd cuts have rank r = 1 + p % MaxRank, *)
(* even cuts have rank r (p < MaxRank) or the next rank (p >= MaxRank).        *)
RankAt(p, d, k) ==
  LET r == 1 + (p % MaxRank)
  IN IF k = 0 \/ k = d THEN 1
     ELSE IF k % 2 = 1 \/ p < MaxRank THEN r
     ELSE 1 + (r % MaxRank)

GenTensor(shape, seed, dtype) ==
  LET F(ix) == ((seed + SumTo([i \in 1..Len(ix) |-> i * i * ix[i]], Len(ix))) % 3) - 1
  IN Tensor(shape, [ix \in Idx(shape) |-> F(ix)], dtype)

ModeDims(raw_shape, k) == [i \in 1..Len(raw_shape) |-> raw_shape[i][k]]

CoreShape(raw_shape, p, k, b) ==
  LET d == Cardinality(DOMAIN raw_shape[1])
      s == <<RankAt(p, d, k)>> \o ModeDims(raw_shape, k) \o <<RankAt(p, d, k + 1)>>
  IN IF b > 0 THEN <<b>> \o s ELSE s

(* A TT (b = 0) or a TT batch of size b with pseudo-random integer cores. *)
MakeTT(raw_shape, p, seed, dtype, b) ==
  TT(IF b > 0 THEN "TensorTrainBatch" ELSE "TensorTrain",
     [k \in DOMAIN raw_shape[1] |-> GenTensor(CoreShape(raw_shape, p, k, b), seed + k, dtype)],
     raw_shape, dtype, b)

(* The identity TT-matrix: all TT-ranks 1, every core the identity on its mode. *)
IdentityMatrix(rows, dtype) ==
  LET F(ix) == IF ix[2] = ix[3] THEN 1 ELSE 0
  IN TT("TensorTrain",
        [k \in DOMAIN rows |->
           Tensor(<<1, rows[k], rows[k], 1>>,
                  [ix \in Idx(<<1, rows[k], rows[k], 1>>) |-> F(ix)], dtype)],
        MatShape(rows, rows), dtype, 0)

GenWeights(shape, seed, dtype) ==
  LET F(ix) == 1 + ((seed + SumTo([i \in 1..Len(ix) |-> i * ix[i]], Len(ix))) % 3)
  IN Tensor(shape, [ix \in Idx(shape) |-> F(ix)], dtype)

(* Points whose orthogonalizations have integer cores: cores with one unit   *)
(* entry per row/column, times a scalar.                                     *)
LinIdx(x, dims) == IF Len(x) = 1 THEN x[1] ELSE (x[1] - 1) * dims[2] + x[2]
ModeCount(dims) == ProdTo(dims, Len(dims))
ModePart(ix) == SubSeq(ix, 2, Len(ix) - 1)

UnitCore(raw_shape, r, k, seed, dtype) ==
  LET d == Cardinality(DOMAIN raw_shape[1])
      dims == ModeDims(raw_shape, k)
      r0 == IF k = 0 THEN 1 ELSE r
      r1 == IF k = d - 1 THEN 1 ELSE r
      F(ix) == LET a == ix[1]
                   c == ix[Len(ix)]
                   x == LinIdx(ModePart(ix), dims)
               IN IF k = 0 THEN (IF x = c THEN 1 ELSE 0)
                  ELSE IF k = d - 1 THEN (IF x = ModeCount(dims) + 1 - a THEN 1 ELSE 0)
                  ELSE (IF x = 1 + (seed % ModeCount(dims)) /\ c = (a % r) + 1 THEN 1 ELSE 0)
  IN Tensor(<<r0>> \o dims \o <<r1>>, [ix \in Idx(<<r0>> \o dims \o <<r1>>) |-> F(ix)], dtype)

Scale(t, c) == Tensor(t.shape, [ix \in Idx(t.shape) |-> c * t.val[ix]], t.dtype)

(* The TT with unit cores and the scalar c on core `at`. *)
UnitTT(raw_shape, r, seed, c, at, dtype) ==
  TT("TensorTrain",
     [k \in DOMAIN raw_shape[1] |->
        IF k = at THEN Scale(UnitCore(raw_shape, r, k, seed, dtype), c)
        ELSE UnitCore(raw_shape, r, k, seed, dtype)],
     raw_shape, dtype, 0)

UnitRanks(raw_shape) ==
  LET d == Cardinality(DOMAIN raw_shape[1])
  IN {r \in 1..MaxRank : /\ r <= ModeCount(ModeDims(raw_shape, 0))
                         /\ r <= ModeCount(ModeDims(raw_shape, d - 1))}

-----------------------------------------------------------------------------
(* Locals of the running function, as the source computes them. *)

Ops == {"project_sum", "project", "project_matmul"}

what_b == expand_batch_dim(what)
num_dims == ndims(where)
batch_size == IF op = "project_sum" THEN lazy_batch_size(what_b) ELSE lazy_batch_size(what)
right_tangent_tt_ranks == lazy_tt_ranks(right_tangent_space_tens)
left_tangent_tt_ranks == lazy_tt_ranks(left_tangent_space_tens)

mode_str == IF is_tt_matrix(where) THEN <<"i", "j">> ELSE <<"i">>
another_mode_str == IF is_tt_matrix(where) THEN <<"r", "t">> ELSE <<"r">>

project_sum_output_is_batch(w) ==
  IF ~IsNone(w) THEN Len(w.shape) > 1 /\ w.shape[2] > 1 ELSE FALSE

output_is_batch ==
  IF op = "project_sum" THEN project_sum_output_is_batch(weights)
  ELSE isTensorTrainBatch(what)

output_batch_str == IF output_is_batch THEN <<"o">> ELSE <<>>

right_rank_dim ==
  (IF op = "project_matmul" THEN 3 ELSE IF is_tt_matrix(where) THEN 3 ELSE 2)
  + (IF output_is_batch THEN 1 ELSE 0)

left_rank_dim == IF output_is_batch THEN 1 ELSE 0

output_batch_size == IF op = "project_sum" THEN weights.shape[2] ELSE what.batch_size

-----------------------------------------------------------------------------
(* Input validation. "" when the arguments pass. *)

(* validate without the dtype check. *)
validate_no_dtype(wt, wr) ==
  IF ~isTensorTrain(wr) THEN "type"
  ELSE IF get_raw_shape(wr) # get_raw_shape(wt) THEN "shape"
  ELSE ""

(* validate that also rejects a matrix whose column modes do not fit. *)
validate_with_matrix(wt, wr) ==
  IF ~isTensorTrain(wr) THEN "type"
  ELSE IF get_raw_shape(wr) # get_raw_shape(wt) THEN "shape"
  ELSE IF ~is_compatible_with(wr.dtype, wt.dtype) THEN "dtype"
  ELSE IF op = "project_matmul"
          /\ ~(is_tt_matrix(matrix) /\ matrix.raw_shape[2] = wt.raw_shape[1]) THEN "shape"
  ELSE ""

validate(wt, wr) ==
  IF ~isTensorTrain(wr) THEN "type"
  ELSE IF get_raw_shape(wr) # get_raw_shape(wt) THEN "shape"
  ELSE IF ~is_compatible_with(wr.dtype, wt.dtype) THEN "dtype"
  ELSE ""

-----------------------------------------------------------------------------
(* Sweeps of project_sum and project. *)

rhs_core(m, tens_core, rhs_next, right_tang_core) ==
  einsum(<< <<"s", "a">> \o m \o <<"b">>, <<"s", "b", "d">>, <<"c">> \o m \o <<"d">> >>,
         <<"s", "a", "c">>,
         <<tens_core, rhs_next, right_tang_core>>)

lhs_core(m, lhs_k, left_tang_core, tens_core) ==
  einsum(<< <<"s", "a", "b">>, <<"a">> \o m \o <<"c">>, <<"s", "b">> \o m \o <<"d">> >>,
         <<"s", "c", "d">>,
         <<lhs_k, left_tang_core, tens_core>>)

(* Sweeps of project_matmul. *)
matmul_rhs_core(matrix_core, right_tang_core, rhs_next, tens_core) ==
  einsum(<< <<"b", "i", "j", "e">>, <<"c", "i", "k", "f">>, <<"s", "d", "e", "f">>,
            <<"s", "a", "j", "k", "d">> >>,
         <<"s", "a", "b", "c">>,
         <<matrix_core, right_tang_core, rhs_next, tens_core>>)

matmul_lhs_core(matrix_core, left_tang_core, lhs_k, tens_core) ==
  einsum(<< <<"b", "i", "j", "e">>, <<"a", "i", "k", "d">>, <<"s", "a", "b", "c">>,
            <<"s", "c", "j", "k", "f">> >>,
         <<"s", "d", "e", "f">>,
         <<matrix_core, left_tang_core, lhs_k, tens_core>>)

-----------------------------------------------------------------------------
(* Projection cores. *)

(* project_sum_inner without the subtraction of the u_proj term. *)
project_sum_inner_no_gauge(m, am, obs, lhs_k, tens_core, rhs_next, left_tang_core, w) ==
  LET common_term ==
        einsum(<< <<"s", "a", "d">>, <<"s", "d">> \o m \o <<"b">>, <<"s", "b", "c">> >>,
               <<"s", "a">> \o m \o <<"c">>,
               <<lhs_k, tens_core, rhs_next>>)
  IN IF IsNone(w)
     THEN reduce_sum0(common_term)
     ELSE einsum(<< <<"s", "a">> \o m \o <<"b">>, <<"s">> \o obs >>,
                 obs \o <<"a">> \o m \o <<"b">>,
                 <<common_term, w>>)

(* project_sum, core_idx < ndims - 1 *)
project_sum_inner(m, am, obs, lhs_k, tens_core, rhs_next, left_tang_core, w) ==
  LET common_term ==
        einsum(<< <<"s", "a", "d">>, <<"s", "d">> \o m \o <<"b">>, <<"s", "b", "c">> >>,
               <<"s", "a">> \o m \o <<"c">>,
               <<lhs_k, tens_core, rhs_next>>)
      u_proj ==
        einsum(<< <<"a">> \o m \o <<"c">>, <<"b">> \o am \o <<"c">> >>,
               <<"a">> \o m \o <<"b">> \o am,
               <<left_tang_core, left_tang_core>>)
  IN IF IsNone(w)
     THEN subtract(reduce_sum0(common_term),
                   einsum(<< <<"a">> \o m \o <<"b">> \o am, <<"s", "a">> \o m \o <<"d">> >>,
                          <<"b">> \o am \o <<"d">>,
                          <<u_proj, common_term>>))
     ELSE subtract(einsum(<< <<"s", "a">> \o m \o <<"b">>, <<"s">> \o obs >>,
                          obs \o <<"a">> \o m \o <<"b">>,
                          <<common_term, w>>),
                   einsum(<< <<"a">> \o m \o <<"b">> \o am, <<"s", "a">> \o m \o <<"d">>,
                             <<"s">> \o obs >>,
                          obs \o <<"b">> \o am \o <<"d">>,
                          <<u_proj, common_term, w>>))

(* project_sum_last pairing lhs of one batch element with the core of another. *)
project_sum_last_mixed(m, obs, lhs_k, tens_core, w) ==
  IF IsNone(w)
  THEN einsum(<< <<"s", "a", "b">>, <<"t", "b">> \o m \o <<"c">> >>,
              <<"a">> \o m \o <<"c">>,
              <<lhs_k, tens_core>>)
  ELSE einsum(<< <<"s", "a", "b">>, <<"s", "b">> \o m \o <<"c">>, <<"s">> \o obs >>,
              obs \o <<"a">> \o m \o <<"c">>,
              <<lhs_k, tens_core, w>>)

(* project_sum, core_idx == ndims - 1 *)
project_sum_last(m, obs, lhs_k, tens_core, w) ==
  IF IsNone(w)
  THEN einsum(<< <<"s", "a", "b">>, <<"s", "b">> \o m \o <<"c">> >>,
              <<"a">> \o m \o <<"c">>,
              <<lhs_k, tens_core>>)
  ELSE einsum(<< <<"s", "a", "b">>, <<"s", "b">> \o m \o <<"c">>, <<"s">> \o obs >>,
              obs \o <<"a">> \o m \o <<"c">>,
              <<lhs_k, tens_core, w>>)

(* project_inner without the subtraction of left_tang_core * lhs[core_idx + 1]. *)
project_inner_no_gauge(m, is_batch, lhs_k, tens_core, left_tang_core, lhs_next, rhs_next) ==
  LET p1 == einsum(<< <<"s", "a", "b">>, <<"s", "b">> \o m \o <<"c">> >>,
                   <<"s", "a">> \o m \o <<"c">>,
                   <<lhs_k, tens_core>>)
  IN einsum(<< <<"s", "a">> \o m \o <<"b">>, <<"s", "b", "c">> >>,
            (IF is_batch THEN <<"s">> ELSE <<>>) \o <<"a">> \o m \o <<"c">>,
            <<p1, rhs_next>>)

(* project, core_idx < ndims - 1 *)
project_inner(m, is_batch, lhs_k, tens_core, left_tang_core, lhs_next, rhs_next) ==
  LET p1 == einsum(<< <<"s", "a", "b">>, <<"s", "b">> \o m \o <<"c">> >>,
                   <<"s", "a">> \o m \o <<"c">>,
                   <<lhs_k, tens_core>>)
      p2 == subtract(p1,
                     einsum(<< <<"a">> \o m \o <<"b">>, <<"s", "b", "c">> >>,
                            <<"s", "a">> \o m \o <<"c">>,
                            <<left_tang_core, lhs_next>>))
  IN einsum(<< <<"s", "a">> \o m \o <<"b">>, <<"s", "b", "c">> >>,
            (IF is_batch THEN <<"s">> ELSE <<>>) \o <<"a">> \o m \o <<"c">>,
            <<p2, rhs_next>>)

(* project_last summing the cores of all batch elements into every element. *)
project_last_mixed(m, is_batch, lhs_k, tens_core) ==
  einsum(<< <<"s", "a", "b">>, <<"t", "b">> \o m \o <<"c">> >>,
         (IF is_batch THEN <<"s">> ELSE <<>>) \o <<"a">> \o m \o <<"c">>,
         <<lhs_k, tens_core>>)

(* project, core_idx == ndims - 1 *)
project_last(m, is_batch, lhs_k, tens_core) ==
  einsum(<< <<"s", "a", "b">>, <<"s", "b">> \o m \o <<"c">> >>,
         (IF is_batch THEN <<"s">> ELSE <<>>) \o <<"a">> \o m \o <<"c">>,
         <<lhs_k, tens_core>>)

(* project_matmul, core_idx < ndims - 1 *)
matmul_inner(tens_core, lhs_k, matrix_core, left_tang_core, lhs_next, rhs_next) ==
  LET p1 == einsum(<< <<"s", "c", "j", "k", "e">>, <<"s", "a", "b", "c">>,
                      <<"b", "i", "j", "d">> >>,
                   <<"s", "a", "i", "k", "d", "e">>,
                   <<tens_core, lhs_k, matrix_core>>)
      p2 == subtract(p1,
                     einsum(<< <<"a", "i", "k", "b">>, <<"s", "b", "c", "d">> >>,
                            <<"s", "a", "i", "k", "c", "d">>,
                            <<left_tang_core, lhs_next>>))
  IN einsum(<< <<"s", "a", "i", "k", "c", "b">>, <<"s", "b", "c", "d">> >>,
            <<"s", "a", "i", "k", "d">>,
            <<p2, rhs_next>>)

(* project_matmul, core_idx == ndims - 1 *)
matmul_last(lhs_k, matrix_core, tens_core) ==
  einsum(<< <<"s", "a", "b", "c">>, <<"b", "i", "j", "d">>, <<"s", "c", "j", "k", "e">> >>,
         <<"s", "a", "i", "k", "e">>,
         <<lhs_k, matrix_core, tens_core>>)

-----------------------------------------------------------------------------
(* Block assembly of one output core (the same text in the three functions). *)

extended(core, is_batch, obsize) ==
  IF is_batch THEN expand_tile(core, obsize) ELSE core

(* Variant: the zero block takes both of its ranks from the right tangent   *)
(* ranks, as if there were one tangent rank sequence.                        *)
zeros_shape_one_sequence(k, rranks, lranks, raw_shape, is_batch, obsize) ==
  (IF is_batch THEN <<obsize>> ELSE <<>>)
    \o <<rranks[k]>> \o ModeDims(raw_shape, k) \o <<rranks[k + 1]>>

zeros_shape(k, rranks, lranks, raw_shape, is_batch, obsize) ==
  (IF is_batch THEN <<obsize>> ELSE <<>>)
    \o <<rranks[k]>> \o ModeDims(raw_shape, k) \o <<lranks[k + 1]>>

(* res_core whose last-mode branch forgets the right-orthogonal block. *)
res_core_last_bare(k, nd, pcore, ext_left, ext_right, rrd, lrd, zshape, dtype) ==
  IF k = 0 THEN concat(pcore, ext_left, rrd)
  ELSE IF k = nd - 1 THEN pcore
  ELSE LET upper == concat(ext_right, zeros(zshape, dtype), rrd)
           lower == concat(pcore, ext_left, rrd)
       IN concat(upper, lower, lrd)

res_core(k, nd, pcore, ext_left, ext_right, rrd, lrd, zshape, dtype) ==
  IF k = 0 THEN concat(pcore, ext_left, rrd)
  ELSE IF k = nd - 1 THEN concat(ext_right, pcore, lrd)
  ELSE LET upper == concat(ext_right, zeros(zshape, dtype), rrd)
           lower == concat(pcore, ext_left, rrd)
       IN concat(upper, lower, lrd)

-----------------------------------------------------------------------------
(* The explored calls. *)

Call(o, wt, wr, mx, w, oa) ==
  /\ op = o /\ what = wt /\ where = wr /\ matrix = mx /\ weights = w /\ orth = oa
  /\ pc = "validate"
  /\ left_tangent_space_tens = None
  /\ right_tangent_space_tens = None
  /\ rhs = <<>> /\ lhs = <<>>
  /\ core_idx = 0
  /\ res_cores_list = <<>>
  /\ result = None
  /\ error = ""

(* What the two calls of decompositions.orthogonalize_tt_cores return for    *)
(* `where`: TTs of the raw shape of `where` with tangent ranks of their own. *)
OrthAnswer(raw_shape, pL, pR, seed, dtype) ==
  [left |-> MakeTT(raw_shape, pL, seed + 3, dtype, 0),
   right |-> MakeTT(raw_shape, pR, seed + 5, dtype, 0)]

(* weights of project_sum for a batch of size S: None, 1-D, or S x O, of the *)
(* dtype of `where`; with faulty, also 1-D and S x O weights of another      *)
(* dtype, and 1-D weights whose length is not S.                             *)
WeightOpts(o, S, seed, dtype, faulty) ==
  IF o # "project_sum" THEN {None}
  ELSE {None, GenWeights(<<S>>, seed, dtype)}
         \cup {GenWeights(<<S, O>>, seed, dtype) : O \in {1, MaxBatch}}
         \cup (IF faulty
               THEN {GenWeights(<<S>>, seed, "float64"),
                     GenWeights(<<S, MaxBatch>>, seed, "float64"),
                     GenWeights(<<S + 1>>, seed, dtype),
                     GenWeights(<<1>>, seed, dtype)}
               ELSE {})

(* matrix of project_matmul: the identity and a pseudo-random TT-matrix of   *)
(* the right shape; with faulty, also one whose column modes do not fit, one *)
(* whose row modes do not fit, a TT-tensor, a fitting TT-matrix of another   *)
(* dtype, TT-matrices with one core more than `where` (all ranks 1, and      *)
(* interior ranks MaxRank), and one with one core less.                      *)
MatrixOpts(o, raw_shape, p, seed, dtype, faulty) ==
  IF o # "project_matmul" THEN {None}
  ELSE LET rows == raw_shape[1]
           d == Cardinality(DOMAIN rows)
           bad == [k \in DOMAIN rows |-> rows[k] + 1]
           longer == [k \in 0..d |-> IF k < d THEN rows[k] ELSE MaxMode]
           shorter == [k \in 0..(d - 2) |-> rows[k]]
       IN {IdentityMatrix(rows, dtype),
           MakeTT(MatShape(rows, rows), p, seed + 7, dtype, 0)}
          \cup (IF faulty
                THEN {MakeTT(MatShape(rows, bad), p, seed + 7, dtype, 0),
                      MakeTT(MatShape(bad, rows), p, seed + 7, dtype, 0),
                      MakeTT(<<rows>>, p, seed + 7, dtype, 0),
                      MakeTT(MatShape(rows, rows), p, seed + 7, "float64", 0),
                      MakeTT(MatShape(longer, longer), 0, seed + 7, dtype, 0),
                      MakeTT(MatShape(longer, longer), MaxRank - 1, seed + 7, dtype, 0)}
                     \cup (IF d >= 2
                           THEN {MakeTT(MatShape(shorter, shorter), 0, seed + 7, dtype, 0)}
                           ELSE {})
                ELSE {})

(* Calls whose arguments pass the checks on `where` and `what`.  `what` is a  *)
(* single TT (b = 0), a batch of one or a batch of MaxBatch; the left tangent *)
(* ranks follow profile pL, the right tangent ranks the same profile (seed 0) *)
(* or the next one (seed 1); batches of one are explored on profile 0.        *)
ValidCall ==
  \E o \in Ops, d \in 1..MaxDims, isMat \in BOOLEAN, b \in {0, 1, MaxBatch}, seed \in Seeds :
    \E pL \in 0..(NumProfiles(d) - 1) :
      LET raw == RawShape(isMat, d, seed)
          pR == (pL + seed) % NumProfiles(d)
          pW == (pL + seed + 1) % NumProfiles(d)
          S == IF b = 0 THEN 1 ELSE b
      IN /\ o = "project_matmul" => isMat
         /\ (b = 1 /\ MaxBatch > 1) => pL = 0
         /\ \E w \in WeightOpts(o, S, seed, "float32", pL = 0) :
              \E mx \in MatrixOpts(o, raw, pR, seed, "float32", pL = 0) :
                Call(o, MakeTT(raw, pW, seed, "float32", b),
                     MakeTT(raw, pL, seed + 1, "float32", 0),
                     mx, w, OrthAnswer(raw, pL, pR, seed, "float32"))

(* Calls whose `where` / `what` break a precondition. *)
ShapeFaults == {"none", "mode", "ndims", "arity"}

FaultyShape(fault, isMat, d, seed) ==
  IF fault = "mode" THEN RawShape(isMat, d, seed + 1)
  ELSE IF fault = "ndims" THEN RawShape(isMat, d + 1, seed)
  ELSE IF fault = "arity" THEN RawShape(~isMat, d, seed)
  ELSE RawShape(isMat, d, seed)

InvalidCall ==
  \E o \in Ops, d \in 1..MaxDims, isMat \in BOOLEAN, b \in {0, MaxBatch} :
    \E whereBatch \in BOOLEAN, sf \in ShapeFaults, dtypeFault \in BOOLEAN :
      LET raw == RawShape(isMat, d, 0)
          S == IF b = 0 THEN 1 ELSE b
      IN /\ o = "project_matmul" => isMat
         /\ whereBatch \/ sf # "none" \/ dtypeFault
         /\ \E w \in WeightOpts(o, S, 0, "float32", FALSE) :
              Call(o,
                   MakeTT(FaultyShape(sf, isMat, d, 0), 0, 0,
                          IF dtypeFault THEN "float64" ELSE "float32", b),
                   MakeTT(raw, 0, 1, "float32", IF whereBatch THEN 1 ELSE 0),
                   IF o = "project_matmul" THEN IdentityMatrix(raw[1], "float32") ELSE None,
                   w, OrthAnswer(raw, 0, 0, 0, "float32"))

(* Calls on a point whose orthogonalizations are exact: `where` has unit     *)
(* cores and a scalar; the orthogonalizer moves the scalar to the last core  *)
(* (left-orthogonal form) and to the first core (right-orthogonal form).     *)
(* `what` is the point itself or a pseudo-random TT.                         *)
ExactCall ==
  \E o \in {"project", "project_sum"}, d \in 2..MaxDims, isMat \in BOOLEAN,
     seed \in Seeds, self \in BOOLEAN :
    LET raw == RawShape(isMat, d, seed) IN
    \E r \in UnitRanks(raw) :
      \E w \in WeightOpts(o, 1, seed, "float32", FALSE) :
        LET wr == UnitTT(raw, r, seed, 2 + seed, seed % d, "float32")
        IN Call(o, IF self THEN wr ELSE MakeTT(raw, seed, seed, "float32", 0), wr, None, w,
                [left |-> UnitTT(raw, r, seed, 2 + seed, d - 1, "float32"),
                 right |-> UnitTT(raw, r, seed, 2 + seed, 0, "float32")])

Init == ValidCall \/ InvalidCall \/ ExactCall

-----------------------------------------------------------------------------
(* The steps of a call. *)

Fail(kind) ==
  /\ pc' = "error"
  /\ error' = kind

(* project_sum: lines 31-50; project: 205-219; project_matmul: 366-380. *)
Validate ==
  /\ pc = "validate"
  /\ LET v == IF op = "project_sum" THEN validate(what_b, where) ELSE validate(what, where)
     IN IF v # "" THEN Fail(v)
        ELSE pc' = "orthogonalize_left" /\ error' = error
  /\ UNCHANGED <<op, what, where, matrix, weights, orth, left_tangent_space_tens,
                 right_tangent_space_tens, rhs, lhs, core_idx, res_cores_list, result>>

OrthogonalizeLeft ==
  /\ pc = "orthogonalize_left"
  /\ left_tangent_space_tens' = orth.left
  /\ pc' = "orthogonalize_right"
  /\ UNCHANGED <<op, what, where, matrix, weights, orth, right_tangent_space_tens,
                 rhs, lhs, core_idx, res_cores_list, result, error>>

OrthogonalizeRight ==
  /\ pc = "orthogonalize_right"
  /\ right_tangent_space_tens' = orth.right
  /\ pc' = "rhs_init"
  /\ UNCHANGED <<op, what, where, matrix, weights, orth, left_tangent_space_tens,
                 rhs, lhs, core_idx, res_cores_list, result, error>>

unit_acc == IF op = "project_matmul" THEN ones(<<batch_size, 1, 1, 1>>, where.dtype)
            ELSE ones(<<batch_size, 1, 1>>, where.dtype)

(* Variant: every entry of rhs starts as the unit accumulator, so the sweep   *)
(* overwrites entries that are already written.                              *)
RhsInit_prefilled ==
  /\ pc = "rhs_init"
  /\ rhs' = [k \in 0..num_dims |-> unit_acc]
  /\ core_idx' = num_dims - 1
  /\ pc' = IF num_dims - 1 > 0 THEN "rhs_loop" ELSE "lhs_init"
  /\ UNCHANGED <<op, what, where, matrix, weights, orth, left_tangent_space_tens,
                 right_tangent_space_tens, lhs, res_cores_list, result, error>>

RhsInit ==
  /\ pc = "rhs_init"
  /\ rhs' = [k \in 0..num_dims |-> IF k = num_dims THEN unit_acc ELSE None]
  /\ core_idx' = num_dims - 1
  /\ pc' = IF num_dims - 1 > 0 THEN "rhs_loop" ELSE "lhs_init"
  /\ UNCHANGED <<op, what, where, matrix, weights, orth, left_tangent_space_tens,
                 right_tangent_space_tens, lhs, res_cores_list, result, error>>

(* matrix.tt_cores[core_idx] does not exist: reading it raises IndexError.   *)
(* The first read is that of core ndims - 1 in the backward sweep; when it   *)
(* succeeds, every later read of a core 0 .. ndims - 1 does.                 *)
matrix_core_missing ==
  op = "project_matmul" /\ core_idx \notin DOMAIN matrix.tt_cores

RhsStep ==
  /\ pc = "rhs_loop"
  /\ LET tens_core == what_b.tt_cores[core_idx]
         right_tang_core == right_tangent_space_tens.tt_cores[core_idx]
         new == IF op = "project_matmul"
                THEN matmul_rhs_core(matrix.tt_cores[core_idx], right_tang_core,
                                     rhs[core_idx + 1], tens_core)
                ELSE rhs_core(mode_str, tens_core, rhs[core_idx + 1], right_tang_core)
     IN IF matrix_core_missing
        THEN Fail("index") /\ UNCHANGED <<rhs, core_idx>>
        ELSE IF IsErr(new)
        THEN Fail("contraction") /\ UNCHANGED <<rhs, core_idx>>
        ELSE /\ rhs' = [rhs EXCEPT ![core_idx] = new]
             /\ core_idx' = core_idx - 1
             /\ pc' = IF core_idx - 1 > 0 THEN "rhs_loop" ELSE "lhs_init"
             /\ error' = error
  /\ UNCHANGED <<op, what, where, matrix, weights, orth, left_tangent_space_tens,
                 right_tangent_space_tens, lhs, res_cores_list, result>>

LhsInit ==
  /\ pc = "lhs_init"
  /\ lhs' = [k \in 0..num_dims |-> IF k = 0 THEN unit_acc ELSE None]
  /\ core_idx' = 0
  /\ pc' = IF 0 < num_dims - 1 THEN "lhs_loop" ELSE "assemble"
  /\ UNCHANGED <<op, what, where, matrix, weights, orth, left_tangent_space_tens,
                 right_tangent_space_tens, rhs, res_cores_list, result, error>>

LhsStep ==
  /\ pc = "lhs_loop"
  /\ LET tens_core == what_b.tt_cores[core_idx]
         left_tang_core == left_tangent_space_tens.tt_cores[core_idx]
         new == IF op = "project_matmul"
                THEN matmul_lhs_core(matrix.tt_cores[core_idx], left_tang_core,
                                     lhs[core_idx], tens_core)
                ELSE lhs_core(mode_str, lhs[core_idx], left_tang_core, tens_core)
     IN IF IsErr(new)
        THEN Fail("contraction") /\ UNCHANGED <<lhs, core_idx>>
        ELSE /\ lhs' = [lhs EXCEPT ![core_idx + 1] = new]
             /\ core_idx' = IF core_idx + 1 < num_dims - 1 THEN core_idx + 1 ELSE 0
             /\ pc' = IF core_idx + 1 < num_dims - 1 THEN "lhs_loop" ELSE "assemble"
             /\ error' = error
  /\ UNCHANGED <<op, what, where, matrix, weights, orth, left_tangent_space_tens,
                 right_tangent_space_tens, rhs, res_cores_list, result>>

(* proj_core of the current core_idx. *)
proj_core ==
  LET tens_core == what_b.tt_cores[core_idx]
      left_tang_core == left_tangent_space_tens.tt_cores[core_idx]
  IN IF op = "project_sum"
     THEN IF core_idx < num_dims - 1
          THEN project_sum_inner(mode_str, another_mode_str, output_batch_str, lhs[core_idx],
                                 tens_core, rhs[core_idx + 1], left_tang_core, weights)
          ELSE project_sum_last(mode_str, output_batch_str, lhs[core_idx], tens_core, weights)
     ELSE IF op = "project"
     THEN IF core_idx < num_dims - 1
          THEN project_inner(mode_str, output_is_batch, lhs[core_idx], tens_core,
                             left_tang_core, lhs[core_idx + 1], rhs[core_idx + 1])
          ELSE project_last(mode_str, output_is_batch, lhs[core_idx], tens_core)
     ELSE IF core_idx < num_dims - 1
          THEN matmul_inner(tens_core, lhs[core_idx], matrix.tt_cores[core_idx],
                            left_tang_core, lhs[core_idx + 1], rhs[core_idx + 1])
          ELSE matmul_last(lhs[core_idx], matrix.tt_cores[core_idx], tens_core)

(* res_core of the current core_idx: proj_core and the extended tangent   *)
(* cores put together.                                                   *)
assembled_core ==
  LET obsize == IF output_is_batch THEN output_batch_size ELSE 0
  IN res_core(core_idx, num_dims, proj_core,
              extended(left_tangent_space_tens.tt_cores[core_idx],
                       output_is_batch, obsize),
              extended(right_tangent_space_tens.tt_cores[core_idx],
                       output_is_batch, obsize),
              right_rank_dim, left_rank_dim,
              zeros_shape(core_idx, right_tangent_tt_ranks, left_tangent_tt_ranks,
                          where.raw_shape, output_is_batch, obsize),
              where.dtype)

AssembleStep ==
  /\ pc = "assemble"
  /\ LET new == assembled_core
     IN IF IsErr(new)
        THEN Fail("contraction") /\ UNCHANGED <<res_cores_list, core_idx>>
        ELSE /\ res_cores_list' = Append(res_cores_list, new)
             /\ core_idx' = core_idx + 1
             /\ pc' = IF core_idx + 1 < num_dims THEN "assemble" ELSE "return"
             /\ error' = error
  /\ UNCHANGED <<op, what, where, matrix, weights, orth, left_tangent_space_tens,
                 right_tangent_space_tens, rhs, lhs, result>>

Return ==
  /\ pc = "return"
  /\ result' = IF output_is_batch
               THEN TensorTrainBatch(res_cores_list, get_raw_shape(where), where.dtype,
                                     output_batch_size)
               ELSE TensorTrain(res_cores_list, get_raw_shape(where), where.dtype)
  /\ pc' = "done"
  /\ UNCHANGED <<op, what, where, matrix, weights, orth, left_tangent_space_tens,
                 right_tangent_space_tens, rhs, lhs, core_idx, res_cores_list, error>>

Next ==
  \/ Validate
  \/ OrthogonalizeLeft
  \/ OrthogonalizeRight
  \/ RhsInit
  \/ RhsStep
  \/ LhsInit
  \/ LhsStep
  \/ AssembleStep
  \/ Return

Spec == Init /\ [][Next]_vars

-----------------------------------------------------------------------------
(* project(wt, wr) as a function of its arguments and of the orthogonalizer's *)
(* answers lt, rt: the checks of lines 205-219, then the sweeps and the       *)
(* assembly of lines 226-342.  A failed check or contraction raises.          *)

RECURSIVE project_rhs(_, _, _, _, _, _, _)
project_rhs(wb, rt, m, bs, dtype, d, k) ==
  IF k = d THEN ones(<<bs, 1, 1>>, dtype)
  ELSE rhs_core(m, wb.tt_cores[k], project_rhs(wb, rt, m, bs, dtype, d, k + 1),
                rt.tt_cores[k])

RECURSIVE project_lhs(_, _, _, _, _, _)
project_lhs(wb, lt, m, bs, dtype, k) ==
  IF k = 0 THEN ones(<<bs, 1, 1>>, dtype)
  ELSE lhs_core(m, project_lhs(wb, lt, m, bs, dtype, k - 1), lt.tt_cores[k - 1],
                wb.tt_cores[k - 1])

project_fn(wt, wr, lt, rt) ==
  LET wb == expand_batch_dim(wt)
      d == ndims(wr)
      m == IF is_tt_matrix(wr) THEN <<"i", "j">> ELSE <<"i">>
      isb == isTensorTrainBatch(wt)
      bs == lazy_batch_size(wt)
      obsize == IF isb THEN wt.batch_size ELSE 0
      rrd == (IF is_tt_matrix(wr) THEN 3 ELSE 2) + (IF isb THEN 1 ELSE 0)
      lrd == IF isb THEN 1 ELSE 0
      pcore(k) ==
        IF k < d - 1
        THEN project_inner(m, isb, project_lhs(wb, lt, m, bs, wr.dtype, k), wb.tt_cores[k],
                           lt.tt_cores[k], project_lhs(wb, lt, m, bs, wr.dtype, k + 1),
                           project_rhs(wb, rt, m, bs, wr.dtype, d, k + 1))
        ELSE project_last(m, isb, project_lhs(wb, lt, m, bs, wr.dtype, k), wb.tt_cores[k])
      cores == [k \in 0..(d - 1) |->
                  res_core(k, d, pcore(k),
                           extended(lt.tt_cores[k], isb, obsize),
                           extended(rt.tt_cores[k], isb, obsize),
                           rrd, lrd,
                           zeros_shape(k, lazy_tt_ranks(rt), lazy_tt_ranks(lt),
                                       wr.raw_shape, isb, obsize),
                           wr.dtype)]
  IN IF validate(wt, wr) # "" THEN Raise(validate(wt, wr))
     ELSE IF \E k \in 0..(d - 1) : IsErr(cores[k]) THEN Raise("contraction")
     ELSE TT(IF isb THEN "TensorTrainBatch" ELSE "TensorTrain", cores, get_raw_shape(wr),
             wr.dtype, obsize)

-----------------------------------------------------------------------------
(* Notions the properties are stated with. *)

(* The arguments fail one of the three checks on `where` and `what`. *)
InvalidArgs ==
  \/ ~isTensorTrain(where)
  \/ where.raw_shape # what.raw_shape
  \/ where.dtype # what.dtype

(* No orthogonalization and no contraction has run, nothing was produced. *)
NothingComputed ==
  /\ IsNone(left_tangent_space_tens)
  /\ IsNone(right_tangent_space_tens)
  /\ rhs = <<>>
  /\ lhs = <<>>
  /\ res_cores_list = <<>>
  /\ IsNone(result)

(* matrix is a TT-matrix whose column modes are the modes of `what`. *)
MatrixFits ==
  /\ is_tt_matrix(matrix)
  /\ matrix.raw_shape[2] = what.raw_shape[1]

Returned == pc = "done"
Ended == pc \in {"done", "error"}

(* Element s (1-based) of a TT batch, as a TensorTrain. *)
element(ttb, s) ==
  TT("TensorTrain", [k \in DOMAIN ttb.tt_cores |-> slice0(ttb.tt_cores[k], s)],
     ttb.raw_shape, ttb.dtype, 0)

(* t restricted to the n positions lo .. lo+n-1 of an axis (1-based). *)
block(t, axis, lo, n) ==
  LET F(ix) == t.val[[ix EXCEPT ![axis] = @ + lo - 1]]
      shp == [t.shape EXCEPT ![axis] = n]
  IN Tensor(shp, [ix \in Idx(shp) |-> F(ix)], t.dtype)

add(a, b) == Tensor(a.shape, [ix \in Idx(a.shape) |-> a.val[ix] + b.val[ix]], a.dtype)

(* Core k of the TT of a + b, from core k of a and of b (d cores in all). *)
sum_core(a, b, k, d) ==
  LET last == Len(a.shape)
      za == zeros([a.shape EXCEPT ![last] = b.shape[last]], a.dtype)
      zb == zeros([b.shape EXCEPT ![last] = a.shape[last]], a.dtype)
  IN IF d = 1 THEN add(a, b)
     ELSE IF k = 0 THEN concat(a, b, last - 1)
     ELSE IF k = d - 1 THEN concat(a, b, 0)
     ELSE concat(concat(a, za, last - 1), concat(zb, b, last - 1), 0)

RECURSIVE sum_core_upto(_, _, _, _)
sum_core_upto(cores, k, d, s) ==
  IF s = 1 THEN slice0(cores[k], 1)
  ELSE sum_core(sum_core_upto(cores, k, d, s - 1), slice0(cores[k], s), k, d)

(* A TensorTrain representing the sum of the elements of the batch wb. *)
sum_of_batch(wb) ==
  TT("TensorTrain",
     [k \in DOMAIN wb.tt_cores |->
        sum_core_upto(wb.tt_cores, k, ndims(wb), wb.batch_size)],
     wb.raw_shape, wb.dtype, 0)

(* The full tensor of a TensorTrain: the product of its cores over the rank  *)
(* axes, as an array of shape (r_0, modes of core 0, ..., modes of core d-1, *)
(* r_d).                                                                     *)
Arity(tt) == Len(tt.raw_shape)
ModeLabels(ar, from, n) == [j \in 1..n |-> <<"m", from + j>>]

RECURSIVE full_upto(_, _)
full_upto(tt, k) ==
  IF k = 0 THEN tt.tt_cores[0]
  ELSE LET ar == Arity(tt)
           prev == <<<<"a", 0>>>> \o ModeLabels(ar, 0, ar * k)
           here == ModeLabels(ar, ar * k, ar)
       IN einsum(<< prev \o <<<<"r", 0>>>>, <<<<"r", 0>>>> \o here \o <<<<"q", 0>>>> >>,
                 prev \o here \o <<<<"q", 0>>>>,
                 <<full_upto(tt, k - 1), tt.tt_cores[k]>>)

full(tt) == full_upto(tt, ndims(tt) - 1)

identity(n, dtype) ==
  Tensor(<<n, n>>, [ix \in Idx(<<n, n>>) |-> IF ix[1] = ix[2] THEN 1 ELSE 0], dtype)

TTModeStr(tt) == IF is_tt_matrix(tt) THEN <<"i", "j">> ELSE <<"i">>

(* Cores 0 .. d-2 have orthonormal columns in their left unfolding. *)
LeftOrthogonal(tt) ==
  \A k \in 0..(ndims(tt) - 2) :
    LET c == tt.tt_cores[k]
        g == einsum(<< <<"a">> \o TTModeStr(tt) \o <<"b">>, <<"a">> \o TTModeStr(tt) \o <<"c">> >>,
                    <<"b", "c">>, <<c, c>>)
    IN g = identity(c.shape[Len(c.shape)], c.dtype)

(* Cores 1 .. d-1 have orthonormal rows in their right unfolding. *)
RightOrthogonal(tt) ==
  \A k \in 1..(ndims(tt) - 1) :
    LET c == tt.tt_cores[k]
        g == einsum(<< <<"b">> \o TTModeStr(tt) \o <<"a">>, <<"c">> \o TTModeStr(tt) \o <<"a">> >>,
                    <<"b", "c">>, <<c, c>>)
    IN g = identity(c.shape[1], c.dtype)

(* The orthogonalizer's answers are left-/right-orthogonal TTs of the tensor *)
(* of `where`.                                                               *)
OrthogonalizerExact ==
  /\ LeftOrthogonal(left_tangent_space_tens)
  /\ RightOrthogonal(right_tangent_space_tens)
  /\ full(left_tangent_space_tens) = full(where)
  /\ full(right_tangent_space_tens) = full(where)

(* Position of the leading rank axis in a core of tt (1-based). *)
LeadAxis(tt) == IF isTensorTrainBatch(tt) THEN 2 ELSE 1
LeadRank(tt, k) == tt.tt_cores[k].shape[LeadAxis(tt)]
TrailRank(tt, k) == LET c == tt.tt_cores[k] IN c.shape[Len(c.shape)]

-----------------------------------------------------------------------------
(* C1: in project, project_sum and project_matmul, a `where` that is not a   *)
(* single TensorTrain, a raw shape of `where` different from that of `what`,  *)
(* or incompatible dtypes end the call in an error, and at that point no      *)
(* orthogonalization and no sweep or assembly contraction has run and no      *)
(* result exists.                                                             *)
C1_EagerValidation ==
  InvalidArgs =>
    /\ pc \in {"validate", "error"}
    /\ pc = "error" => error \in {"type", "shape", "dtype"}
    /\ NothingComputed

C1_Witness ==
  /\ InvalidArgs
  /\ isTensorTrain(where)
  /\ where.raw_shape = what.raw_shape
  /\ pc = "error"
  /\ error = "dtype"

MatrixCoresFit ==
  /\ is_tt_matrix(matrix)
  /\ matrix.dtype = where.dtype
  /\ ndims(matrix) >= num_dims
  /\ \A k \in 0..(num_dims - 1) :
       /\ matrix.tt_cores[k].shape[2] = where.raw_shape[1][k]
       /\ matrix.tt_cores[k].shape[3] = what.raw_shape[1][k]
  /\ num_dims >= 2 => matrix.tt_cores[num_dims - 1].shape[4] = 1

C3_OuterRanksOne ==
  Returned =>
    /\ LeadRank(result, 0) = 1
    /\ TrailRank(result, num_dims - 1) = 1

(* C4 as stated: for d >= 2 and every interior cut 0 < k < d, the rank of the *)
(* result at cut k is right_tangent_rank[k] + left_tangent_rank[k+1].         *)
C4_RankLawAsStated ==
  (Returned /\ num_dims >= 2) =>
    \A k \in 1..(num_dims - 1) :
      /\ TrailRank(result, k - 1) = right_tangent_tt_ranks[k] + left_tangent_tt_ranks[k + 1]
      /\ LeadRank(result, k) = right_tangent_tt_ranks[k] + left_tangent_tt_ranks[k + 1]

(* C4, amended: for d >= 2 and every interior cut 0 < k < d, the rank of the  *)
(* result at cut k (trailing rank of core k-1, leading rank of core k) is     *)
(* right_tangent_rank[k] + left_tangent_rank[k], the tangent ranks being      *)
(* those of the TTs the orthogonalizer returned.                              *)
C4_RankLaw ==
  (Returned /\ num_dims >= 2) =>
    \A k \in 1..(num_dims - 1) :
      /\ TrailRank(result, k - 1) = right_tangent_tt_ranks[k] + left_tangent_tt_ranks[k]
      /\ LeadRank(result, k) = right_tangent_tt_ranks[k] + left_tangent_tt_ranks[k]

C4_Witness ==
  /\ Returned
  /\ num_dims >= 3
  /\ left_tangent_tt_ranks # right_tangent_tt_ranks
  /\ left_tangent_tt_ranks[1] # left_tangent_tt_ranks[2]
  /\ TrailRank(result, 0) = right_tangent_tt_ranks[1] + left_tangent_tt_ranks[1]

-----------------------------------------------------------------------------
(* C5: project treats batch elements independently.  For a batch `what` of   *)
(* size S the result is a batch of size S whose element s is                 *)
(* project(what[s], where); for a single TensorTrain `what` the result is a  *)
(* single TensorTrain whose cores carry no batch axis.                       *)
C5_BatchIndependent ==
  (op = "project" /\ Returned) =>
    IF isTensorTrainBatch(what)
    THEN /\ isTensorTrainBatch(result)
         /\ result.batch_size = what.batch_size
         /\ \A k \in DOMAIN result.tt_cores : result.tt_cores[k].shape[1] = what.batch_size
         /\ \A s \in 1..what.batch_size :
              element(result, s) = project_fn(element(what, s), where,
                                              left_tangent_space_tens,
                                              right_tangent_space_tens)
    ELSE /\ isTensorTrain(result)
         /\ \A k \in DOMAIN result.tt_cores :
              Len(result.tt_cores[k].shape) = Len(where.tt_cores[k].shape)

C5_Witness ==
  /\ op = "project"
  /\ Returned
  /\ isTensorTrainBatch(what)
  /\ what.batch_size >= 2
  /\ num_dims >= 2
  /\ element(what, 1) # element(what, 2)
  /\ element(result, 1) # element(result, 2)

(* C6 as stated: project_sum with weights of shape S x O returns, for every  *)
(* O >= 1, a TT batch of size O; with 1-D weights of length S or without     *)
(* weights it returns a single TensorTrain.                                  *)
C6_OutputKind ==
  (op = "project_sum" /\ ~InvalidArgs /\ Ended) =>
    /\ Returned
    /\ IF ~IsNone(weights) /\ Len(weights.shape) = 2
       THEN isTensorTrainBatch(result) /\ result.batch_size = weights.shape[2]
       ELSE isTensorTrain(result)

(* C7 as stated: for a TT-matrix `where` and `what` of the same raw shape,   *)
(* single or batch, project_matmul(what, where, identity) completes and      *)
(* returns the object project(what, where) returns: same kind, same core     *)
(* shapes, same core values.                                                 *)
C7_IdentityMatmulIsProject ==
  (/\ op = "project_matmul"
   /\ ~InvalidArgs
   /\ Ended
   /\ matrix = IdentityMatrix(where.raw_shape[1], where.dtype)) =>
    /\ Returned
    /\ result = project_fn(what, where, orth.left, orth.right)

(* C8: project_sum(what, where) without weights represents the same tensor   *)
(* as project(X, where), X a TT of the sum of the elements of `what` (the    *)
(* element itself for a batch of one or a single TensorTrain): the two       *)
(* results have the same cores, hence the same full tensor.                  *)
C8_SumConsistency ==
  (op = "project_sum" /\ IsNone(weights) /\ Returned) =>
    LET ref == project_fn(sum_of_batch(what_b), where, left_tangent_space_tens,
                          right_tangent_space_tens)
    IN /\ isTensorTrain(result)
       /\ result.tt_cores = ref.tt_cores
       /\ num_dims >= 2 => full(result) = full(ref)

C8_Witness ==
  /\ op = "project_sum"
  /\ IsNone(weights)
  /\ Returned
  /\ what_b.batch_size >= 2
  /\ num_dims >= 3
  /\ \E ix \in DOMAIN full(result).val : full(result).val[ix] # 0

(* C9: when the orthogonalizer returns left- and right-orthogonal TTs of the *)
(* tensor of `where` (d >= 2), project(where, where) is a TensorTrain whose  *)
(* full tensor is the full tensor of `where`.                                *)
C9_FixedPoint ==
  (/\ op = "project"
   /\ Returned
   /\ what = where
   /\ num_dims >= 2
   /\ OrthogonalizerExact) =>
    /\ isTensorTrain(result)
    /\ full(result) = full(where)

C9_Witness ==
  /\ op = "project"
  /\ Returned
  /\ what = where
  /\ num_dims >= 3
  /\ OrthogonalizerExact
  /\ left_tangent_tt_ranks[1] >= 2
  /\ \E ix \in DOMAIN full(where).val : full(where).val[ix] # 0
  /\ full(result) = full(where)

-----------------------------------------------------------------------------
(* The projection block of output core k of project_sum, and what it is with *)
(* and without the gauge subtraction.                                        *)

(* proj_core as it sits in output core k: right of nothing and left of the   *)
(* left-orthogonal core at k = 0, below the right-orthogonal core otherwise. *)
proj_block(k) ==
  LET c == result.tt_cores[k]
      la == LeadAxis(result)
      ta == Len(c.shape)
      R == right_tangent_tt_ranks
      L == left_tangent_tt_ranks
  IN IF num_dims = 1 THEN block(c, ta, 1, 1)
     ELSE IF k = 0 THEN block(c, ta, 1, R[1])
     ELSE IF k = num_dims - 1 THEN block(c, la, R[k] + 1, L[k])
     ELSE block(block(c, la, R[k] + 1, L[k]), ta, 1, R[k + 1])

(* sum_s w[s] * lhs[k][s] * what core k [s] * rhs[k+1][s], in one contraction. *)
common_sum(k) ==
  IF IsNone(weights)
  THEN einsum(<< <<"s", "a", "d">>, <<"s", "d">> \o mode_str \o <<"b">>, <<"s", "b", "c">> >>,
              <<"a">> \o mode_str \o <<"c">>,
              <<lhs[k], what_b.tt_cores[k], rhs[k + 1]>>)
  ELSE einsum(<< <<"s", "a", "d">>, <<"s", "d">> \o mode_str \o <<"b">>, <<"s", "b", "c">>,
                 <<"s">> \o output_batch_str >>,
              output_batch_str \o <<"a">> \o mode_str \o <<"c">>,
              <<lhs[k], what_b.tt_cores[k], rhs[k + 1], weights>>)

(* U^T c: the coordinates of c along the columns of the left unfolding of u. *)
span_part(u, c) ==
  einsum(<< <<"a">> \o mode_str \o <<"b">>, output_batch_str \o <<"a">> \o mode_str \o <<"c">> >>,
         output_batch_str \o <<"b", "c">>,
         <<u, c>>)

(* c - U (U^T c): c without its component in the span of u. *)
gauge_removed(u, c) ==
  subtract(c,
           einsum(<< <<"a">> \o mode_str \o <<"b">>, output_batch_str \o <<"b", "c">> >>,
                  output_batch_str \o <<"a">> \o mode_str \o <<"c">>,
                  <<u, span_part(u, c)>>))

(* C10 as stated: in project_sum the gauge subtraction is applied exactly at *)
(* the interior modes 0 < k < d-1, and neither at k = 0 nor at k = d-1.      *)
C10_GaugeAtInteriorOnly ==
  (op = "project_sum" /\ Returned) =>
    \A k \in 0..(num_dims - 1) :
      proj_block(k) = IF 0 < k /\ k < num_dims - 1
                      THEN gauge_removed(left_tangent_space_tens.tt_cores[k], common_sum(k))
                      ELSE common_sum(k)

(* C10, amended: in project_sum the gauge subtraction is applied at every    *)
(* mode k < d-1, the first mode k = 0 included, and not at the last mode     *)
(* k = d-1.  Where it is applied and the left core is orthogonal, the        *)
(* projection block has no component in the span of that core.               *)
C10_GaugeBeforeLast ==
  (op = "project_sum" /\ Returned) =>
    \A k \in 0..(num_dims - 1) :
      LET u == left_tangent_space_tens.tt_cores[k] IN
      /\ proj_block(k) = IF k < num_dims - 1 THEN gauge_removed(u, common_sum(k))
                         ELSE common_sum(k)
      /\ (k < num_dims - 1 /\ LeftOrthogonal(left_tangent_space_tens)) =>
           span_part(u, proj_block(k)) = zeros(span_part(u, proj_block(k)).shape, where.dtype)

C10_Witness ==
  /\ op = "project_sum"
  /\ Returned
  /\ num_dims >= 3
  /\ LeftOrthogonal(left_tangent_space_tens)
  /\ common_sum(0) # gauge_removed(left_tangent_space_tens.tt_cores[0], common_sum(0))
  /\ proj_block(0) = gauge_removed(left_tangent_space_tens.tt_cores[0], common_sum(0))
  /\ common_sum(num_dims - 1) # zeros(common_sum(num_dims - 1).shape, where.dtype)
  /\ proj_block(num_dims - 1) = common_sum(num_dims - 1)

-----------------------------------------------------------------------------
(* Entry k of an accumulator list has been written. *)
Written(acc, k) == acc # <<>> /\ ~IsNone(acc[k])

(* The entries of acc that are written are exactly those of ks. *)
WrittenExactly(acc, ks) == \A j \in 0..num_dims : Written(acc, j) <=> j \in ks

(* rhs[k] as the backward sweep computes it from rhs[k+1] and the two cores  *)
(* at index k; lhs[k+1] as the forward sweep computes it from lhs[k].        *)
rhs_from(k) ==
  IF op = "project_matmul"
  THEN matmul_rhs_core(matrix.tt_cores[k], right_tangent_space_tens.tt_cores[k],
                       rhs[k + 1], what_b.tt_cores[k])
  ELSE rhs_core(mode_str, what_b.tt_cores[k], rhs[k + 1],
                right_tangent_space_tens.tt_cores[k])

lhs_from(k) ==
  IF op = "project_matmul"
  THEN matmul_lhs_core(matrix.tt_cores[k], left_tangent_space_tens.tt_cores[k],
                       lhs[k], what_b.tt_cores[k])
  ELSE lhs_core(mode_str, lhs[k], left_tangent_space_tens.tt_cores[k],
                what_b.tt_cores[k])

(* What one step may write, given what has been written before it. *)
OrthLeftInOrder ==
  left_tangent_space_tens' # left_tangent_space_tens =>
    /\ ~InvalidArgs
    /\ pc # "validate"
    /\ IsNone(left_tangent_space_tens)
    /\ IsNone(right_tangent_space_tens)
    /\ right_tangent_space_tens' = right_tangent_space_tens
    /\ rhs = <<>> /\ lhs = <<>> /\ res_cores_list = <<>>

OrthRightInOrder ==
  right_tangent_space_tens' # right_tangent_space_tens =>
    /\ ~IsNone(left_tangent_space_tens)
    /\ IsNone(right_tangent_space_tens)
    /\ rhs = <<>> /\ lhs = <<>> /\ res_cores_list = <<>>

RhsInOrder ==
  rhs' # rhs =>
    /\ ~IsNone(left_tangent_space_tens)
    /\ ~IsNone(right_tangent_space_tens)
    /\ lhs = <<>> /\ lhs' = lhs /\ res_cores_list = <<>>
    /\ IF rhs = <<>>
       THEN /\ DOMAIN rhs' = 0..num_dims
            /\ \A j \in 0..num_dims : ~IsNone(rhs'[j]) <=> j = num_dims
       ELSE \E k \in 1..(num_dims - 1) :
              /\ WrittenExactly(rhs, (k + 1)..num_dims)
              /\ ~IsNone(rhs'[k])
              /\ rhs' = [rhs EXCEPT ![k] = rhs_from(k)]

LhsInOrder ==
  lhs' # lhs =>
    /\ WrittenExactly(rhs, 1..num_dims)
    /\ rhs' = rhs
    /\ res_cores_list = <<>>
    /\ IF lhs = <<>>
       THEN /\ DOMAIN lhs' = 0..num_dims
            /\ \A j \in 0..num_dims : ~IsNone(lhs'[j]) <=> j = 0
       ELSE \E k \in 0..(num_dims - 2) :
              /\ WrittenExactly(lhs, 0..k)
              /\ ~IsNone(lhs'[k + 1])
              /\ lhs' = [lhs EXCEPT ![k + 1] = lhs_from(k)]

AssembleInOrder ==
  res_cores_list' # res_cores_list =>
    LET k == Len(res_cores_list)
    IN /\ WrittenExactly(rhs, 1..num_dims)
       /\ WrittenExactly(lhs, 0..(num_dims - 1))
       /\ rhs' = rhs /\ lhs' = lhs
       /\ k < num_dims
       /\ k = core_idx
       /\ Len(res_cores_list') = k + 1
       /\ SubSeq(res_cores_list', 1, k) = res_cores_list
       /\ IsNone(result)

ReturnInOrder ==
  result' # result =>
    /\ IsNone(result)
    /\ Len(res_cores_list) = num_dims
    /\ res_cores_list' = res_cores_list
    /\ \A k \in 0..(num_dims - 1) : result'.tt_cores[k] = res_cores_list[k + 1]

StepInOrder ==
  /\ OrthLeftInOrder
  /\ OrthRightInOrder
  /\ RhsInOrder
  /\ LhsInOrder
  /\ AssembleInOrder
  /\ ReturnInOrder

(* C11: in every call the steps follow one order: the checks on the          *)
(* arguments, the left then the right orthogonalization, the backward sweep  *)
(* writing rhs[d-1], ..., rhs[1] (each from rhs[k+1]), the forward sweep      *)
(* writing lhs[1], ..., lhs[d-1] (each from lhs[k]), then the output cores    *)
(* 0, ..., d-1 one at a time and the result; an entry is written once, and    *)
(* every entry a sweep or the assembler reads was written before.             *)
C11_StepOrder == [][StepInOrder]_vars

C11_Witness ==
  /\ Returned
  /\ num_dims >= 3
  /\ WrittenExactly(rhs, 1..num_dims)
  /\ WrittenExactly(lhs, 0..(num_dims - 1))
  /\ Len(res_cores_list) = num_dims

-----------------------------------------------------------------------------
(* The rank of the result at cut k and the shape of its core k, from the     *)
(* tangent ranks the orthogonalizer returned.                                *)
ExpectedRank(k) ==
  IF k = 0 \/ k = num_dims THEN 1
  ELSE right_tangent_tt_ranks[k] + left_tangent_tt_ranks[k]

ExpectedShape(k) ==
  (IF output_is_batch THEN <<output_batch_size>> ELSE <<>>)
    \o <<ExpectedRank(k)>> \o ModeDims(where.raw_shape, k) \o <<ExpectedRank(k + 1)>>

(* C12: in project and project_sum with d >= 2, whatever left and right      *)
(* tangent ranks the orthogonalizer returned (equal or not), the block       *)
(* concatenations of the assembler fit whenever proj_core was computed, and   *)
(* the result is a TT of the raw shape of `where` whose core k has shape      *)
(* (R_k, n_k, R_{k+1}), R_0 = R_d = 1 and R_k = right_tangent_rank[k] +       *)
(* left_tangent_rank[k] for 0 < k < d (after the output batch axis, if any),  *)
(* so consecutive cores agree on the rank between them; with equal left and   *)
(* right tangent ranks R_k is twice the tangent rank.                         *)
C12_WellFormed ==
  (op \in {"project", "project_sum"} /\ num_dims >= 2) =>
    /\ (pc = "assemble" /\ ~IsErr(proj_core)) =>
         /\ ~IsErr(assembled_core)
         /\ assembled_core.shape = ExpectedShape(core_idx)
    /\ Returned =>
         /\ result.raw_shape = where.raw_shape
         /\ DOMAIN result.tt_cores = 0..(num_dims - 1)
         /\ \A k \in 0..(num_dims - 1) : result.tt_cores[k].shape = ExpectedShape(k)
         /\ LeadRank(result, 0) = 1
         /\ TrailRank(result, num_dims - 1) = 1
         /\ \A k \in 1..(num_dims - 1) : TrailRank(result, k - 1) = LeadRank(result, k)
         /\ left_tangent_tt_ranks = right_tangent_tt_ranks =>
              \A k \in 1..(num_dims - 1) : LeadRank(result, k) = 2 * left_tangent_tt_ranks[k]

C12_Witness ==
  /\ op = "project_sum"
  /\ Returned
  /\ num_dims >= 3
  /\ output_is_batch
  /\ \E k \in 1..(num_dims - 1) : left_tangent_tt_ranks[k] # right_tangent_tt_ranks[k]
  /\ left_tangent_tt_ranks[1] # left_tangent_tt_ranks[2]
  /\ result.tt_cores[1].shape = ExpectedShape(1)

====
